---------------------------- MODULE Spec2Model ----------------------------
(***************************************************************************)
(* Model of markov_asset/asset_solutions_py.ipynb (asset_pricing.py):      *)
(* AssetPriceModel, tree_price, consol_price and the value-iteration loop  *)
(* of call_option.                                                         *)
(*                                                                         *)
(* numpy float64 values are modelled as exact rationals <<num, den>> in    *)
(* lowest terms with den > 0: rounding and overflow are not modelled.      *)
(* Vectors are sequences of rationals, matrices are sequences of rows.     *)
(***************************************************************************)
EXTENDS Integers, Sequences, FiniteSets, TLC

(***************************************************************************)
(* Bound of the model: the loop of call_option has no iteration cap in the *)
(* code; the model stops exploring a run after MaxIter updates.            *)
(***************************************************************************)
MaxIter == 8

---------------------------------------------------------------------------
(* Exact rational arithmetic (the float64 scalars of numpy).               *)

IAbs(a) == IF a < 0 THEN -a ELSE a

\* the arithmetic is defined as functions, so that an operand is a value
gcd[a \in Nat, b \in Nat] == IF b = 0 THEN a ELSE gcd[b, a % b]
GCD(a, b) == gcd[a, b]

norm[n \in Int, d \in Nat \ {0}] ==
    LET g == GCD(IAbs(n), d)
    IN  <<n \div g, d \div g>>
Norm(n, d) == norm[n, d]

Rat == Int \X (Nat \ {0})

Zero == <<0, 1>>
One == <<1, 1>>
Half == <<1, 2>>
Quarter == <<1, 4>>

RNeg(x) == <<-x[1], x[2]>>

radd[x \in Rat, y \in Rat] ==
    LET g == GCD(x[2], y[2])
        l == (x[2] \div g) * y[2]
    IN  Norm(x[1] * (l \div x[2]) + y[1] * (l \div y[2]), l)
RAdd(x, y) == radd[x, y]

RSub(x, y) == RAdd(x, RNeg(y))

rmul[x \in Rat, y \in Rat] ==
    LET g1 == GCD(IAbs(x[1]), y[2])
        g2 == GCD(IAbs(y[1]), x[2])
    IN  Norm((x[1] \div g1) * (y[1] \div g2), (x[2] \div g2) * (y[2] \div g1))
RMul(x, y) == rmul[x, y]

\* 1 / x for x # 0
RInv(x) == IF x[1] < 0 THEN <<-x[2], -x[1]>> ELSE <<x[2], x[1]>>

RDiv(x, y) == RMul(x, RInv(y))

rle[x \in Rat, y \in Rat] == x[1] * y[2] <= y[1] * x[2]
RLe(x, y) == rle[x, y]
RLt(x, y) == ~RLe(y, x)
RGt(x, y) == RLt(y, x)
RGe(x, y) == RLe(y, x)

rmax[x \in Rat, y \in Rat] == IF RLe(x, y) THEN y ELSE x
RMax(x, y) == rmax[x, y]
RMin(x, y) == RNeg(RMax(RNeg(x), RNeg(y)))
RAbs(x) == <<IAbs(x[1]), x[2]>>

\* x ** k for an integer exponent k (x # 0 when k < 0)
RECURSIVE RPow(_, _)
RPow(x, k) ==
    IF k = 0 THEN One
    ELSE IF k < 0 THEN RPow(RInv(x), -k)
    ELSE RMul(x, RPow(x, k - 1))

---------------------------------------------------------------------------
(* numpy vector and matrix operations used by the code.                    *)

Vec == Seq(Rat)

sumseq[s \in Vec] == IF s = <<>> THEN Zero ELSE RAdd(Head(s), sumseq[Tail(s)])
SumSeq(s) == sumseq[s]

\* np.amax of a non-empty vector
maxseq[s \in Vec] == IF Len(s) = 1 THEN s[1] ELSE RMax(Head(s), maxseq[Tail(s)])
MaxSeq(s) == maxseq[s]

dot[r \in Vec, x \in Vec] == SumSeq([j \in 1..Len(r) |-> RMul(r[j], x[j])])
Dot(r, x) == dot[r, x]

\* A @ x, A.dot(x)
MatVec(A, x) == [i \in 1..Len(A) |-> Dot(A[i], x)]

\* c * x for a scalar c
Scale(c, x) == [i \in 1..Len(x) |-> RMul(c, x[i])]

\* np.ones(n), np.zeros(n)
Ones(n) == [i \in 1..n |-> One]
Zeros(n) == [i \in 1..n |-> Zero]

\* I - beta * M for a square matrix M
IMinusBetaM(beta, M) ==
    [i \in 1..Len(M) |->
        [j \in 1..Len(M) |->
            RSub(IF i = j THEN One ELSE Zero, RMul(beta, M[i][j]))]]

\* the matrix A without row 1 and column j
Minor(A, j) ==
    [i \in 1..(Len(A) - 1) |->
        [k \in 1..(Len(A) - 1) |-> A[i + 1][IF k < j THEN k ELSE k + 1]]]

Sign(j) == IF j % 2 = 1 THEN One ELSE <<-1, 1>>

RECURSIVE Det(_)
Det(A) ==
    IF Len(A) = 1 THEN A[1][1]
    ELSE SumSeq([j \in 1..Len(A) |->
                    RMul(RMul(Sign(j), A[1][j]), Det(Minor(A, j)))])

\* A with column j replaced by the vector b
ReplaceCol(A, j, b) ==
    [i \in 1..Len(A) |-> [k \in 1..Len(A) |-> IF k = j THEN b[i] ELSE A[i][k]]]

\* numpy.linalg.solve(A, b): the unique x with A x = b, LinAlgError when A is
\* singular.  Results are records [raised, value].
Raised(e) == [raised |-> e, value |-> <<>>]
Value(v) == [raised |-> "none", value |-> v]

solve(A, b) ==
    LET d == Det(A)
    IN  IF d = Zero THEN Raised("LinAlgError")
        ELSE Value([j \in 1..Len(A) |-> RDiv(Det(ReplaceCol(A, j, b)), d)])


---------------------------------------------------------------------------
(* Inputs: the Markov chains (mc.P, mc.state_values) and scalars the model *)
(* is explored with.                                                       *)

Two == <<2, 1>>
Four == <<4, 1>>
Eight == <<8, 1>>
ThreeQuarters == <<3, 4>>

Chain(P, y) == [P |-> P, state_values |-> y]

P_one == << <<One>> >>
P_eye == << <<One, Zero>>, <<Zero, One>> >>
P_unif == << <<Half, Half>>, <<Half, Half>> >>
P_swap == << <<Zero, One>>, <<One, Zero>> >>
P_absorb == << <<Half, Half>>, <<Zero, One>> >>
P_mix == << <<Quarter, ThreeQuarters>>, <<ThreeQuarters, Quarter>> >>

\* row-stochastic transition matrices with positive state values
ValidChains ==
    { Chain(P_one, <<One>>), Chain(P_one, <<Two>>), Chain(P_one, <<Half>>),
      Chain(P_eye, <<Two, One>>), Chain(P_unif, <<Two, One>>),
      Chain(P_swap, <<Two, Half>>),
      Chain(P_absorb, <<One, Two>>), Chain(P_absorb, <<Half, One>>),
      Chain(P_mix, <<Half, Two>>), Chain(P_mix, <<One, Half>>) }

\* chains the specification calls malformed: a matrix that is not square, a
\* row that does not sum to 1, a number of state values other than n
InvalidChains ==
    { Chain(<< <<Half, Half>> >>, <<One, Two>>),
      Chain(<< <<One>>, <<One>> >>, <<One>>),
      Chain(<< <<Half, Quarter>>, <<Zero, One>> >>, <<One, Two>>),
      Chain(<< <<Two>> >>, <<One>>),
      Chain(P_eye, <<One>>),
      Chain(P_eye, <<One, Two, Half>>),
      Chain(P_one, <<One, Two>>) }

Betas == {Half}
\* discount factors the constructor is called with
CtorBetas == {Quarter, Half, ThreeQuarters}
Gammas == {0, 1, 2, 3}
Coupons == {Zero, Four, Eight}
Strikes == {Four, Eight}
Tolerances == {<<1, 8>>, <<1, 32>>}
HorizonLists == {<<0>>, <<0, 2>>, <<1, 5>>}
\* the argument T of a call: a list, or none (the default is used)
HorizonArgs ==
    {[given |-> TRUE, list |-> l] : l \in HorizonLists}
        \cup {[given |-> FALSE, list |-> <<>>]}

IsSquare(P) == \A i \in 1..Len(P) : Len(P[i]) = Len(P)
RowsSumToOne(P) == \A i \in 1..Len(P) : SumSeq(P[i]) = One
IsValidChain(mc) ==
    /\ IsSquare(mc.P)
    /\ RowsSumToOne(mc.P)
    /\ Len(mc.state_values) = Len(mc.P)

---------------------------------------------------------------------------
(* class AssetPriceModel                                                   *)

NoModel == [kind |-> "none"]

\* mutant of AssetPriceModel: a constructor that validates the chain
AssetPriceModel_validating(beta, mc, gamma) ==
    IF /\ \A i \in 1..Len(mc.P) : Len(mc.P[i]) = Len(mc.P)
       /\ \A i \in 1..Len(mc.P) : SumSeq(mc.P[i]) = One
       /\ Len(mc.state_values) = Len(mc.P)
    THEN [kind |-> "AssetPriceModel", beta |-> beta, mc |-> mc,
          gamma |-> gamma, n |-> Len(mc.P)]
    ELSE [kind |-> "InvalidModelError"]

\* self.n = self.mc.P.shape[0]
ModelN(mc) == Len(mc.P)

\* __init__: self.beta, self.mc, self.gamma = beta, mc, gamma
AssetPriceModel(beta, mc, gamma) ==
    [kind |-> "AssetPriceModel", beta |-> beta, mc |-> mc, gamma |-> gamma,
     n |-> ModelN(mc)]

\* P * y**e with broadcasting of y across the columns of P
Kernel(P, y, e) ==
    [i \in 1..Len(P) |-> [j \in 1..Len(P[i]) |-> RMul(P[i][j], RPow(y[j], e))]]

\* property P_tilde: P * y**(1 - gamma)
P_tilde(m) == Kernel(m.mc.P, m.mc.state_values, 1 - m.gamma)

\* property P_check: P * y**(-gamma)
P_check(m) == Kernel(m.mc.P, m.mc.state_values, -m.gamma)

\* the chain object after a property read: P and y are read, the product is
\* a new array
McAfterRead(m) == m.mc

---------------------------------------------------------------------------
(* tree_price and consol_price                                             *)

\* beta * solve(...): the exception of solve propagates
BetaTimes(beta, s) ==
    IF s.raised # "none" THEN s ELSE Value(Scale(beta, s.value))

\* mutant of tree_price: the factor beta in front of solve is lost
tree_price_nobeta(m) ==
    LET Pt == P_tilde(m)
    IN  solve(IMinusBetaM(m.beta, Pt), MatVec(Pt, Ones(m.n)))

tree_price(m) ==
    LET Pt == P_tilde(m)
    IN  BetaTimes(m.beta,
                  solve(IMinusBetaM(m.beta, Pt), MatVec(Pt, Ones(m.n))))

\* mutant of consol_price: the coupon is added to the payoff of 1
consol_price_plus(m, z) ==
    LET Pc == P_check(m)
    IN  BetaTimes(m.beta,
                  solve(IMinusBetaM(m.beta, Pc),
                        MatVec(Pc, [i \in 1..m.n |-> RAdd(z, One)])))

consol_price(m, z) ==
    LET Pc == P_check(m)
    IN  BetaTimes(m.beta,
                  solve(IMinusBetaM(m.beta, Pc),
                        MatVec(Pc, Scale(z, Ones(m.n)))))

---------------------------------------------------------------------------
(* State.                                                                  *)

VARIABLES
    apm,         \* the AssetPriceModel instance (NoModel before __init__)
    T_default,   \* the list object of call_option's default argument T=[]
    pc,          \* "new", "idle" (between calls), "loop" (inside call_option)
    ret_tree,    \* what tree_price returned or raised, if it was the last call
    ret_consol,  \* coupon -> what consol_price returned or raised for it, in
                 \* the consol_price calls since the last call of another function
    ret_option,  \* what call_option returned or raised, if it was the last call
    horizons,    \* the list object the caller passed as T (<<>> if none)
    zeta, p_s, T, epsilon,   \* call_option's arguments; T is "default" or
                             \* "caller": the list object T is bound to
    v_bar,       \* local of call_option: consol_price(apm, zeta)
    heap,        \* the arrays call_option created, by object id
    w_bar,       \* local of call_option: id of the array w_bar is bound to
    error, t,    \* locals of call_option
    w_bars       \* local of call_option: dict t -> id of the stored array

vars == <<apm, T_default, pc, ret_tree, ret_consol, ret_option, horizons,
          zeta, p_s, T, epsilon, v_bar, heap, w_bar, error, t, w_bars>>

\* the frame of the current or last call_option call
frame == <<horizons, zeta, p_s, T, epsilon, v_bar, heap, w_bar, error, t, w_bars>>

NoResult == [raised |-> "nocall", value |-> <<>>]
NoConsol == [z \in Coupons |-> NoResult]
EmptyDict == [k \in {} |-> 0]

\* the list T is bound to
TList == IF T = "default" THEN T_default ELSE horizons

InList(x, l) == \E k \in 1..Len(l) : l[k] = x

---------------------------------------------------------------------------
(* The body of call_option's loop.                                         *)

\* mutant of BellmanUpdate: the minimum across the stacked rows
BellmanUpdate_min(m, w, vbar, ps) ==
    LET Pc == P_check(m)
    IN  [i \in 1..Len(w) |->
            RMin(RMul(m.beta, Dot(Pc[i], w)), RSub(vbar[i], ps))]

\* to_stack = (beta*P_check.dot(w_bar), v_bar-p_s)
\* w_bar_new = np.amax(np.vstack(to_stack), axis=0)
BellmanUpdate(m, w, vbar, ps) ==
    LET Pc == P_check(m)
    IN  [i \in 1..Len(w) |->
            RMax(RMul(m.beta, Dot(Pc[i], w)), RSub(vbar[i], ps))]

\* mutant of SupDist: the size of the new iterate, not of the difference
SupDist_new(w, wnew) == MaxSeq([i \in 1..Len(w) |-> RAbs(wnew[i])])

\* error = np.amax(np.abs(w_bar-w_bar_new))
supdist[w \in Vec, wnew \in Vec] ==
    MaxSeq([i \in 1..Len(w) |-> RAbs(RSub(w[i], wnew[i]))])
SupDist(w, wnew) == supdist[w, wnew]

\* mutant of LoopContinues: while error >= epsilon
LoopContinues_ge(err, eps) == RGe(err, eps)

\* while error > epsilon
LoopContinues(err, eps) == RGt(err, eps)

\* error = epsilon + 1
InitialError(eps) == RAdd(eps, One)

\* if t in T: w_bars[t] = w_bar      (the dict stores the array object)
RecordSnapshot(d, l, k, ref) ==
    IF InList(k, l)
    THEN [j \in (DOMAIN d) \cup {k} |-> IF j = k THEN ref ELSE d[j]]
    ELSE d

\* mutant of ListAfterTest: the horizon is appended to the list
ListAfterTest_append(l, k) == Append(l, k)

\* the list object after the membership test t in T: the test reads it
ListAfterTest(l, k) == l

\* mutant of Rebind: w_bar[:] = w_bar_new, the array is overwritten in place
Rebind_inplace(h, ref, wnew) ==
    [heap |-> [h EXCEPT ![ref] = wnew], ref |-> ref]

\* w_bar = w_bar_new: the name is bound to the new array object, the old
\* array is left as it is
Rebind(h, ref, wnew) ==
    [heap |-> [j \in (DOMAIN h) \cup {Cardinality(DOMAIN h)} |->
                  IF j \in DOMAIN h THEN h[j] ELSE wnew],
     ref |-> Cardinality(DOMAIN h)]

\* mutant of InitialW: w_bar = np.ones(apm.n)
InitialW_ones(m) == Ones(m.n)

\* w_bar = np.zeros(apm.n)
InitialW(m) == Zeros(m.n)

\* return w_bar, w_bars
ReturnValue(h, ref, d) ==
    [raised |-> "none",
     value |-> [w_bar |-> h[ref], w_bars |-> [k \in DOMAIN d |-> h[d[k]]]]]

---------------------------------------------------------------------------
(* Operations.                                                             *)

\* no call_option frame
NoFrame ==
    /\ horizons = <<>> /\ zeta = Zero /\ p_s = Zero /\ T = "default"
    /\ epsilon = Zero /\ v_bar = NoResult /\ heap = EmptyDict /\ w_bar = 0
    /\ error = Zero /\ t = 0 /\ w_bars = EmptyDict

\* the frame of an earlier call_option call is gone
DropFrame ==
    /\ horizons' = <<>> /\ zeta' = Zero /\ p_s' = Zero /\ T' = "default"
    /\ epsilon' = Zero /\ v_bar' = NoResult /\ heap' = EmptyDict /\ w_bar' = 0
    /\ error' = Zero /\ t' = 0 /\ w_bars' = EmptyDict

\* apm = AssetPriceModel(beta, mc, gamma)
Construct ==
    /\ pc = "new"
    /\ \E b \in CtorBetas, mc \in ValidChains \cup InvalidChains, g \in Gammas :
          apm' = AssetPriceModel(b, mc, g)
    /\ pc' = "idle"
    /\ UNCHANGED <<T_default, ret_tree, ret_consol, ret_option, frame>>

\* tree_price(apm)
TreePrice ==
    /\ pc = "idle"
    /\ ret_tree' = tree_price(apm)
    /\ apm' = [apm EXCEPT !.mc = McAfterRead(apm)]
    /\ ret_consol' = NoConsol
    /\ ret_option' = NoResult
    /\ DropFrame
    /\ UNCHANGED <<T_default, pc>>

\* consol_price(apm, z)
ConsolPrice ==
    /\ pc = "idle"
    /\ \E z \in Coupons :
          ret_consol' = [ret_consol EXCEPT ![z] = consol_price(apm, z)]
    /\ apm' = [apm EXCEPT !.mc = McAfterRead(apm)]
    /\ ret_tree' = NoResult
    /\ ret_option' = NoResult
    /\ DropFrame
    /\ UNCHANGED <<T_default, pc>>

\* call_option(apm, z, ps, a.list, eps), or, when no list is given,
\* call_option(apm, z, ps, epsilon=eps): entry up to the first test of the
\* while condition
CallOption ==
    /\ pc = "idle"
    /\ \E z \in Coupons :
          LET p_bar == consol_price(apm, z)
          IN  /\ zeta' = z
              /\ v_bar' = p_bar
              /\ IF p_bar.raised # "none"
                 THEN /\ ret_option' = Raised(p_bar.raised)
                      /\ pc' = "idle"
                 ELSE /\ ret_option' = NoResult
                      /\ pc' = "loop"
    /\ \E ps \in Strikes, eps \in Tolerances, a \in HorizonArgs :
          /\ p_s' = ps
          /\ epsilon' = eps
          /\ T' = IF a.given THEN "caller" ELSE "default"
          /\ horizons' = a.list
          /\ error' = InitialError(eps)
    /\ apm' = [apm EXCEPT !.mc = McAfterRead(apm)]
    /\ heap' = [j \in {0} |-> InitialW(apm)]
    /\ w_bar' = 0
    /\ t' = 0
    /\ w_bars' = EmptyDict
    /\ ret_tree' = NoResult
    /\ ret_consol' = NoConsol
    /\ UNCHANGED T_default

\* one pass through the body of the while loop
Iterate ==
    /\ pc = "loop"
    /\ LoopContinues(error, epsilon)
    /\ t < MaxIter
    /\ LET w == heap[w_bar]
           w_bar_new == BellmanUpdate(apm, w, v_bar.value, p_s)
           b == Rebind(heap, w_bar, w_bar_new)
       IN  /\ w_bars' = RecordSnapshot(w_bars, TList, t, w_bar)
           /\ error' = SupDist(w, w_bar_new)
           /\ heap' = b.heap
           /\ w_bar' = b.ref
           /\ t' = t + 1
    /\ IF T = "default"
       THEN /\ T_default' = ListAfterTest(T_default, t)
            /\ UNCHANGED horizons
       ELSE /\ horizons' = ListAfterTest(horizons, t)
            /\ UNCHANGED T_default
    /\ UNCHANGED <<apm, pc, ret_tree, ret_consol, ret_option,
                   zeta, p_s, T, epsilon, v_bar>>

\* the while condition is false: return w_bar, w_bars
Return ==
    /\ pc = "loop"
    /\ ~LoopContinues(error, epsilon)
    /\ ret_option' = ReturnValue(heap, w_bar, w_bars)
    /\ pc' = "idle"
    /\ UNCHANGED <<apm, T_default, ret_tree, ret_consol, frame>>

---------------------------------------------------------------------------
(* Specifications.                                                         *)

NoResults ==
    /\ ret_tree = NoResult
    /\ ret_consol = NoConsol
    /\ ret_option = NoResult

\* Spec: a model built from a valid chain, then any sequence of calls
Init ==
    /\ apm \in {AssetPriceModel(b, mc, g) :
                    b \in Betas, mc \in ValidChains, g \in Gammas}
    /\ T_default = <<>>
    /\ pc = "idle"
    /\ NoResults
    /\ NoFrame

Next == TreePrice \/ ConsolPrice \/ CallOption \/ Iterate \/ Return

Spec == Init /\ [][Next]_vars

\* the interpreter keeps running a loop that has work to do
FairSpec == Spec /\ WF_vars(Iterate) /\ WF_vars(Return)

\* SpecNew: the constructor alone, on well-formed and malformed chains
InitNew ==
    /\ apm = NoModel
    /\ T_default = <<>>
    /\ pc = "new"
    /\ NoResults
    /\ NoFrame

NextNew == Construct

SpecNew == InitNew /\ [][NextNew]_vars

---------------------------------------------------------------------------
(* Reference definitions used by the properties.                           *)

VecGe(x, y) == \A i \in 1..Len(x) : RGe(x[i], y[i])

\* <<w_0, ..., w_k>>: w_0 the all-zero vector, w_j the Bellman update of
\* w_{j-1}, for the arguments of the current call
RECURSIVE Iterates(_)
Iterates(k) ==
    IF k = 0 THEN <<Zeros(apm.n)>>
    ELSE CHOOSE ws \in
             {Append(prev, BellmanUpdate(apm, prev[k], v_bar.value, p_s)) :
                 prev \in {Iterates(k - 1)}} : TRUE

\* w_k in the sequence ws of iterates, and max|w_{k-1} - w_k|
W(ws, k) == ws[k + 1]
StepSize(ws, k) == SupDist(ws[k], ws[k + 1])

Returned == ret_option.raised = "none"

\* the values of a list
Elems(l) == {l[k] : k \in 1..Len(l)}

\* the sup norm of beta * P_check is below 1
RowSum(r) == SumSeq(r)
Contraction(m) ==
    \A i \in 1..m.n : RLt(RMul(m.beta, RowSum(P_check(m)[i])), One)

\* exercise value of the option in state i
Exercise(i) == RSub(v_bar.value[i], p_s)

---------------------------------------------------------------------------
(* Properties.                                                             *)

\* C1: every iterate of call_option after the first update, and the vector
\* it returns, is in every state i at least v_bar[i] - p_s and at least 0.
LowerBounded(w) ==
    \A i \in 1..Len(w) : RGe(w[i], Exercise(i)) /\ RGe(w[i], Zero)

C1_LowerBounds ==
    /\ (pc = "loop" /\ t >= 1) => LowerBounded(heap[w_bar])
    /\ Returned => LowerBounded(ret_option.value.w_bar)

\* a call returned after three updates or more, out of the money in one state
\* and in the money in another
C1_Witness ==
    /\ Returned
    /\ t >= 3
    /\ \E i \in 1..apm.n : RLt(Exercise(i), Zero)
    /\ \E i \in 1..apm.n : RGt(Exercise(i), Zero)

\* C2: the array stored under key k is the Bellman update applied k times to
\* the all-zero vector (all zeros for k = 0), in the loop state where it is
\* stored, in every later state of the loop, and in the returned mapping.
C2_Snapshots ==
    \A ws \in {Iterates(t)} :
        /\ \A k \in DOMAIN w_bars : heap[w_bars[k]] = W(ws, k)
        /\ 0 \in DOMAIN w_bars => heap[w_bars[0]] = Zeros(apm.n)
        /\ Returned =>
              \A k \in DOMAIN ret_option.value.w_bars :
                  ret_option.value.w_bars[k] = W(ws, k)

\* horizons 0 and 2 were recorded, two more updates followed, and the
\* snapshots differ from each other and from the returned vector
C2_Witness ==
    /\ Returned
    /\ t >= 4
    /\ DOMAIN ret_option.value.w_bars = {0, 2}
    /\ ret_option.value.w_bars[2] # ret_option.value.w_bars[0]
    /\ ret_option.value.w_bars[2] # ret_option.value.w_bar

\* C3: when call_option returns, the keys of the returned mapping are
\* exactly the requested horizons.
C3_AllHorizonsRecorded ==
    Returned => DOMAIN ret_option.value.w_bars = Elems(TList)

RunawayAt(i) ==
    /\ pc = "loop"
    /\ LoopContinues(error, epsilon)
    /\ \A j, k \in 1..apm.n : RGe(P_check(apm)[j][k], Zero)
    /\ VecGe(BellmanUpdate(apm, heap[w_bar], v_bar.value, p_s), heap[w_bar])
    /\ RGe(RMul(apm.beta, P_check(apm)[i][i]), One)
    /\ LET cont == RMul(apm.beta, Dot(P_check(apm)[i], heap[w_bar]))
       IN  /\ RGe(cont, Exercise(i))
           /\ RGt(RSub(cont, heap[w_bar][i]), epsilon)

Runaway == \E i \in 1..apm.n : RunawayAt(i)

\* the loop never leaves a runaway state: after the next update the state is
\* again a runaway state in i, in which Return is not enabled.  The step
\* w'[i] - w[i] is then at least the step before it, so the loop condition
\* error > epsilon stays true in every later iteration.
RunawayPersists ==
    [][\A i \in 1..apm.n : RunawayAt(i) => RunawayAt(i)']_vars

\* C5 (as claimed): a chain that is malformed yields no model.
C5_InvalidChainRejected ==
    apm.kind = "AssetPriceModel" => IsValidChain(apm.mc)

\* C5 (amended): constructing an AssetPriceModel never fails: whatever the
\* chain, it yields a model that stores beta, mc and gamma and whose n is the
\* number of rows of mc.P.
C5_ConstructorAccepts ==
    pc = "idle" =>
        /\ apm.kind = "AssetPriceModel"
        /\ apm.n = Len(apm.mc.P)
        /\ apm.beta \in CtorBetas
        /\ apm.gamma \in Gammas

\* a model was built from a chain whose matrix is not square
C5_Witness ==
    /\ pc = "idle"
    /\ apm.kind = "AssetPriceModel"
    /\ ~IsSquare(apm.mc.P)

\* C6: when I - beta*P_tilde is invertible, tree_price returns a vector v of
\* length n with (I - beta*P_tilde) v = beta * P_tilde * ones(n), the same as
\* solving the system with the right-hand side scaled by beta.
C6_TreePriceSolves ==
    LET Pt == P_tilde(apm)
        A == IMinusBetaM(apm.beta, Pt)
        rhs == Scale(apm.beta, MatVec(Pt, Ones(apm.n)))
    IN  (ret_tree.raised # "nocall" /\ Det(A) # Zero) =>
            /\ ret_tree.raised = "none"
            /\ Len(ret_tree.value) = apm.n
            /\ MatVec(A, ret_tree.value) = rhs
            /\ ret_tree.value = solve(A, rhs).value

\* tree_price returned for a two-state model whose prices differ by state
C6_Witness ==
    /\ ret_tree.raised = "none"
    /\ apm.n = 2
    /\ ret_tree.value[1] # ret_tree.value[2]
    /\ ret_tree.value[1] # Zero

\* C7: consol_price is linear in the coupon: the price for 2*c is twice the
\* price for c, and the price for coupon 0 is the zero vector.
C7_ConsolLinear ==
    /\ \A c \in Coupons :
          (/\ RMul(Two, c) \in Coupons
           /\ ret_consol[c].raised = "none"
           /\ ret_consol[RMul(Two, c)].raised = "none")
          => ret_consol[RMul(Two, c)].value = Scale(Two, ret_consol[c].value)
    /\ ret_consol[Zero].raised = "none" => ret_consol[Zero].value = Zeros(apm.n)

\* consol_price returned for coupons 4 and 8, with a price other than 0
C7_Witness ==
    /\ ret_consol[Four].raised = "none"
    /\ ret_consol[Eight].raised = "none"
    /\ ret_consol[Four].value[1] # Zero

\* C8: call_option performs at least one update; no update before the last
\* moved w by epsilon or less; the last one did; the returned vector is the
\* last update.
C8_StopsAtFirst ==
    \A ws \in {Iterates(t)} :
        /\ pc = "loop" =>
              /\ heap[w_bar] = W(ws, t)
              /\ \A k \in 1..(t - 1) : RGt(StepSize(ws, k), epsilon)
              /\ (t >= 1 /\ RLe(StepSize(ws, t), epsilon)) => ~ENABLED Iterate
        /\ Returned =>
              /\ t >= 1
              /\ ret_option.value.w_bar = W(ws, t)
              /\ RLe(StepSize(ws, t), epsilon)
              /\ \A k \in 1..(t - 1) : RGt(StepSize(ws, k), epsilon)

\* a call returned after three updates or more, the last of which moved w
C8_Witness ==
    /\ Returned
    /\ t >= 3
    /\ RGt(error, Zero)

\* C9: no operation changes the model (beta, gamma, n, the chain's matrix
\* and state values) or the default list of call_option, which stays empty,
\* and call_option leaves the caller's list as it is.
C9_Frame ==
    [][/\ apm' = apm
       /\ T_default' = T_default
       /\ T_default = <<>>
       /\ (pc = "loop" => horizons' = horizons)]_vars

\* a call with the default list returned after two updates or more
C9_Witness ==
    /\ Returned
    /\ T = "default"
    /\ t >= 2

\* C10: the arrays call_option creates are non-decreasing in creation order
\* in every state; a snapshot at a longer horizon is never below one at a
\* shorter horizon, and the returned vector is never below a snapshot.
C10_Monotone ==
    /\ \A k \in DOMAIN heap : k >= 1 => VecGe(heap[k], heap[k - 1])
    /\ \A j, k \in DOMAIN w_bars :
          j <= k => VecGe(heap[w_bars[k]], heap[w_bars[j]])
    /\ Returned =>
          \A k \in DOMAIN ret_option.value.w_bars :
              VecGe(ret_option.value.w_bar, ret_option.value.w_bars[k])

\* the returned vector is above the snapshot at horizon 2 in some state, and
\* that snapshot is above the one at horizon 0
C10_Witness ==
    /\ Returned
    /\ DOMAIN ret_option.value.w_bars = {0, 2}
    /\ \E i \in 1..apm.n :
          /\ RGt(ret_option.value.w_bar[i], ret_option.value.w_bars[2][i])
          /\ RGt(ret_option.value.w_bars[2][i], ret_option.value.w_bars[0][i])

=============================================================================
